---- MODULE Spec2Model ----
(***************************************************************************)
(* A model of the two record-editing tools of gl_fix_tool:                 *)
(*   - GL Correction        (doctype/gl_correction/gl_correction.py)        *)
(*   - Stock Valuation Fix  (doctype/stock_valuation_fix/                   *)
(*                           stock_valuation_fix.py)                        *)
(*                                                                         *)
(* Amounts are Python floats in the source.  They are modelled as exact    *)
(* rationals <<numerator, denominator>> in lowest terms, counted in units  *)
(* of 0.0001 (so the tolerance 0.0001 of the source is one unit).          *)
(* None is the empty tuple.  An empty string stands for an unset Link or   *)
(* Data field.                                                             *)
(*                                                                         *)
(* frappe.throw aborts the request and the database transaction is rolled  *)
(* back: a call that throws leaves every stored value as it was.           *)
(***************************************************************************)
EXTENDS Integers, Sequences, FiniteSets, TLC

VARIABLES
    gl,            \* the GL Entry table: name -> row
    glAtFetch,     \* history: the GL Entry table when fetch_gl_entries last succeeded
    doc,           \* the GL Correction document (with its child table "entries")
    rivs,          \* the Repost Item Valuation documents created so far
    rivInstalled,  \* frappe.db.exists("DocType", "Repost Item Valuation")
    svf,           \* the Stock Valuation Fix document
    bin,           \* the Bin table: item_code -> row of that item in warehouse W1, or None
    pr,            \* the Purchase Receipt "PR-1": conversion_rate and items
    srs,           \* the Stock Reconciliation documents created so far
    last           \* the last call: [op, args, threw, ret, comments]

vars == <<gl, glAtFetch, doc, rivs, rivInstalled, svf, bin, pr, srs, last>>

glVars == <<gl, glAtFetch, doc, rivs, rivInstalled>>
svfVars == <<svf, bin, pr, srs>>

\* ------------------------------------------------------------------ bounds

MaxAmount == 1      \* row debit / credit values a user types: 0..MaxAmount
MaxRiv == 1         \* Repost Item Valuation documents created in one run
MaxVal == 2         \* amount fields of the GL Entry in SpecAmounts: 0..MaxVal
MaxRate == 2        \* valuation rates in SpecSVF: 0..MaxRate
MaxQty == 2         \* Bin quantities in SpecSVF: 0..MaxQty

\* ------------------------------------------------------------- rationals

None == <<>>

Abs(x) == IF x < 0 THEN -x ELSE x

RECURSIVE GCD(_, _)
GCD(a, b) == IF b = 0 THEN a ELSE GCD(b, a % b)

\* n/d in lowest terms with a positive denominator (d # 0)
Norm(n, d) ==
    LET g == GCD(Abs(n), Abs(d))
        s == IF d < 0 THEN -1 ELSE 1
    IN  <<(s * n) \div g, (s * d) \div g>>

R(n) == <<n, 1>>
Zero == R(0)
RAdd(a, b) == Norm(a[1] * b[2] + b[1] * a[2], a[2] * b[2])
RSub(a, b) == Norm(a[1] * b[2] - b[1] * a[2], a[2] * b[2])
RMul(a, b) == Norm(a[1] * b[1], a[2] * b[2])
RDiv(a, b) == Norm(a[1] * b[2], a[2] * b[1])
RAbs(a) == <<Abs(a[1]), a[2]>>
RGt(a, b) == a[1] * b[2] > b[1] * a[2]
\* Python truthiness of a float
Truthy(a) == a # None /\ a[1] # 0

\* frappe.utils.flt: None becomes 0.0, a number stays the number
flt(x) == IF x = None THEN Zero ELSE x

\* 0.0001, the tolerance of validate_totals and validate_gl_state, in units
Tolerance == 1

\* ------------------------------------------------------- the last call

Call(op, args, threw, ret, comments) ==
    [op |-> op, args |-> args, threw |-> threw, ret |-> ret, comments |-> comments]

NoCall == Call("", <<>>, FALSE, None, <<>>)

\* ------------------------------------------------------- GL Entry table

GLNames == <<"GLE-1", "GLE-2", "GLE-3">>     \* in "name asc" order

Accounts == {"Cash", "Bank"}
CostCenters == {"Main"}

GLEntry(account, cost_center, d, c, cancelled) ==
    [company |-> "ACME", voucher_type |-> "Purchase Receipt",
     voucher_no |-> "PR-1", is_cancelled |-> cancelled,
     account |-> account, cost_center |-> cost_center,
     debit |-> R(d[1]), credit |-> R(c[1]),
     debit_in_account_currency |-> R(d[2]),
     credit_in_account_currency |-> R(c[2]),
     debit_in_transaction_currency |-> R(d[3]),
     credit_in_transaction_currency |-> R(c[3])]

\* The stored fields of a GL Entry the correction reads and writes
GLFields(e) ==
    <<e.account, e.cost_center, e.debit, e.credit,
      e.debit_in_account_currency, e.credit_in_account_currency,
      e.debit_in_transaction_currency, e.credit_in_transaction_currency>>

\* The ledgers a behaviour starts from: voucher PR-1 of ACME has a debit entry
\* GLE-1, a credit entry GLE-2 and a cancelled entry GLE-3.
Ledger(cc1, d1, c2) ==
    [n \in {GLNames[i] : i \in 1..3} |->
        CASE n = "GLE-1" -> GLEntry("Cash", cc1, d1, <<0, 0, 0>>, 0)
          [] n = "GLE-2" -> GLEntry("Bank", "Main", <<0, 0, 0>>, c2, 0)
          [] OTHER       -> GLEntry("Cash", "Main", <<2, 2, 2>>, <<0, 0, 0>>, 1)]

InitialLedgers ==
    { \* a foreign-currency voucher whose debit entry has no cost center
      Ledger("", <<2, 3, 3>>, <<2, 3, 3>>),
      \* a debit entry written before the transaction-currency column existed
      Ledger("Main", <<2, 3, 0>>, <<2, 3, 3>>),
      \* a voucher that balances only within the tolerance
      Ledger("Main", <<2, 3, 3>>, <<1, 1, 1>>),
      \* a voucher that does not balance
      Ledger("Main", <<2, 3, 3>>, <<0, 0, 0>>) }

\* ------------------------------------------------- GL Correction document

NewDoc(company, voucher_type, voucher_no) ==
    [docstatus |-> 0, status |-> "Draft",
     company |-> company, voucher_type |-> voucher_type, voucher_no |-> voucher_no,
     entries |-> <<>>,
     total_debit |-> Zero, total_credit |-> Zero, difference |-> Zero]

RECURSIVE SumField(_, _)
SumField(rows, f) ==
    IF rows = <<>> THEN Zero
    ELSE RAdd(SumField(SubSeq(rows, 1, Len(rows) - 1), f), flt(rows[Len(rows)][f]))

update_totals(d) ==
    LET total_debit == SumField(d.entries, "debit")
        total_credit == SumField(d.entries, "credit")
    IN  [d EXCEPT !.total_debit = flt(total_debit),
                  !.total_credit = flt(total_credit),
                  !.difference = flt(RSub(total_debit, total_credit))]

\* TRUE when validate_totals throws
validate_totals_wrong_abs(d) ==
    \/ d.entries = <<>>
    \/ RGt(flt(d.difference), R(Tolerance))

validate_totals(d) ==
    \/ d.entries = <<>>
    \/ RGt(RAbs(flt(d.difference)), R(Tolerance))

\* validate: [threw, doc]
validate(d) ==
    LET d1 == update_totals(d)
    IN  [threw |-> validate_totals(d1), doc |-> d1]

on_submit(d, g) == [doc |-> [d EXCEPT !.status = "Applied"], gl |-> g]


\* --------------------------------------------- update_gl_entry_amounts

\* The debit branch of update_gl_entry_amounts with the currency columns only
\* overwritten by the new debit (no proportional rescaling)
DebitUpdates_no_rescale(gle, nd) ==
    IF Truthy(flt(gle.debit)) \/ Truthy(nd)
    THEN [gle EXCEPT !.debit = nd,
                     !.debit_in_account_currency = nd,
                     !.debit_in_transaction_currency = nd]
    ELSE gle

\* lines 462-476: the "updates" of the debit side applied to the row
DebitUpdates(gle, nd) ==
    LET old_debit == flt(gle.debit)
        debit_factor == IF Truthy(old_debit) THEN RDiv(nd, old_debit) ELSE None
        old_d_acc == flt(gle.debit_in_account_currency)
        old_d_trn == flt(gle.debit_in_transaction_currency)
    IN  IF Truthy(old_debit) \/ Truthy(nd)
        THEN [gle EXCEPT
                !.debit = nd,
                !.debit_in_account_currency =
                    IF Truthy(old_d_acc) \/ debit_factor # None
                    THEN IF Truthy(old_debit) /\ debit_factor # None
                         THEN flt(RMul(old_d_acc, debit_factor))
                         ELSE nd
                    ELSE @,
                !.debit_in_transaction_currency =
                    IF Truthy(old_d_trn) \/ debit_factor # None
                    THEN IF Truthy(old_debit) /\ debit_factor # None
                         THEN flt(RMul(old_d_trn, debit_factor))
                         ELSE IF nd = Zero THEN Zero ELSE old_d_trn
                    ELSE @]
        ELSE gle

\* lines 477-491: the "updates" of the credit side applied to the row
CreditUpdates(gle, nc) ==
    LET old_credit == flt(gle.credit)
        credit_factor == IF Truthy(old_credit) THEN RDiv(nc, old_credit) ELSE None
        old_c_acc == flt(gle.credit_in_account_currency)
        old_c_trn == flt(gle.credit_in_transaction_currency)
    IN  IF Truthy(old_credit) \/ Truthy(nc)
        THEN [gle EXCEPT
                !.credit = nc,
                !.credit_in_account_currency =
                    IF Truthy(old_c_acc) \/ credit_factor # None
                    THEN IF Truthy(old_credit) /\ credit_factor # None
                         THEN flt(RMul(old_c_acc, credit_factor))
                         ELSE nc
                    ELSE @,
                !.credit_in_transaction_currency =
                    IF Truthy(old_c_trn) \/ credit_factor # None
                    THEN IF Truthy(old_credit) /\ credit_factor # None
                         THEN flt(RMul(old_c_trn, credit_factor))
                         ELSE IF nc = Zero THEN Zero ELSE old_c_trn
                    ELSE @]
        ELSE gle

\* The table after update_gl_entry_amounts(gl_entry_name, new_debit, new_credit).
\* Every name a correction row references is a row of the table (no operation
\* deletes a GL Entry), so the "not found" throw of line 453 is not taken.
update_gl_entry_amounts(g, gl_entry_name, new_debit, new_credit) ==
    LET nd == flt(new_debit)
        nc == flt(new_credit)
    IN  [g EXCEPT ![gl_entry_name] = CreditUpdates(DebitUpdates(@, nd), nc)]

\* ----------------------------------------------- restore_gl_entry_originals

restore_gl_entry_originals(g, row) ==
    IF row.reference_gl_entry = "" THEN g
    ELSE [g EXCEPT ![row.reference_gl_entry] =
            [@ EXCEPT
               !.account = IF row.original_account # ""
                           THEN row.original_account ELSE @,
               !.cost_center = IF row.original_cost_center # ""
                               THEN row.original_cost_center ELSE @,
               !.debit = flt(row.original_debit),
               !.credit = flt(row.original_credit),
               !.debit_in_account_currency =
                    flt(row.original_debit_in_account_currency),
               !.credit_in_account_currency =
                    flt(row.original_credit_in_account_currency),
               !.debit_in_transaction_currency =
                    flt(row.original_debit_in_transaction_currency),
               !.credit_in_transaction_currency =
                    flt(row.original_credit_in_transaction_currency)]]

\* ------------------------------------------------------ GL Correction

HeaderMissing(d) == d.company = "" \/ d.voucher_type = "" \/ d.voucher_no = ""

\* frappe.get_all("GL Entry", filters=..., order_by="posting_date asc, name asc")
MatchingGLEntries(d, g) ==
    SelectSeq(GLNames, LAMBDA n:
        /\ g[n].company = d.company
        /\ g[n].voucher_type = d.voucher_type
        /\ g[n].voucher_no = d.voucher_no
        /\ g[n].is_cancelled = 0)

FetchedRow(gle, name) ==
    [account |-> gle.account,
     cost_center |-> gle.cost_center,
     debit |-> flt(gle.debit),
     credit |-> flt(gle.credit),
     reference_gl_entry |-> name,
     original_account |-> gle.account,
     original_cost_center |-> gle.cost_center,
     original_debit |-> flt(gle.debit),
     original_credit |-> flt(gle.credit),
     original_debit_in_account_currency |-> flt(gle.debit_in_account_currency),
     original_credit_in_account_currency |-> flt(gle.credit_in_account_currency),
     original_debit_in_transaction_currency |->
         flt(gle.debit_in_transaction_currency),
     original_credit_in_transaction_currency |->
         flt(gle.credit_in_transaction_currency)]

\* A handler's outcome: whether it threw, the stored values it leaves, its
\* return value and the comments it added
Outcome(threw, d, g, r, ret, comments) ==
    [threw |-> threw, doc |-> d, gl |-> g, rivs |-> r,
     ret |-> ret, comments |-> comments]

Throws(d, g, r) == Outcome(TRUE, d, g, r, None, <<>>)

\* fetch_gl_entries; self.save() runs validate on the draft
fetch_gl_entries(d, g, r) ==
    LET gl_entries == MatchingGLEntries(d, g)
        rows == [i \in 1..Len(gl_entries) |-> FetchedRow(g[gl_entries[i]], gl_entries[i])]
        d1 == update_totals([d EXCEPT !.entries = rows])
        saved == validate(d1)
    IN  IF d.docstatus # 0 THEN Throws(d, g, r)
        ELSE IF HeaderMissing(d) THEN Throws(d, g, r)
        ELSE IF gl_entries = <<>> THEN Throws(d, g, r)
        ELSE IF saved.threw THEN Throws(d, g, r)
        ELSE Outcome(FALSE, saved.doc, g, r,
                     [count |-> Len(gl_entries),
                      total_debit |-> saved.doc.total_debit,
                      total_credit |-> saved.doc.total_credit],
                     <<>>)

\* One pass of the loop of apply_gl_updates (lines 191-213)
ApplyRow(g, row) ==
    LET gle_name == row.reference_gl_entry
        g1 == update_gl_entry_amounts(g, gle_name, flt(row.debit), flt(row.credit))
        setAccount == row.account # "" /\ g1[gle_name].account # row.account
        setCostCenter == row.cost_center # ""
                         /\ g1[gle_name].cost_center # row.cost_center
    IN  IF gle_name = "" THEN g
        ELSE [g1 EXCEPT ![gle_name] =
                [@ EXCEPT !.account = IF setAccount THEN row.account ELSE @,
                          !.cost_center = IF setCostCenter THEN row.cost_center ELSE @]]

RECURSIVE ApplyRows(_, _)
ApplyRows(g, rows) ==
    IF rows = <<>> THEN g ELSE ApplyRows(ApplyRow(g, Head(rows)), Tail(rows))

Referencing(rows) == SelectSeq(rows, LAMBDA row: row.reference_gl_entry # "")

\* apply_gl_updates without the docstatus check of line 186
apply_gl_updates_unguarded(d, g, r) ==
    Outcome(FALSE, [d EXCEPT !.status = "GL Updated"], ApplyRows(g, d.entries), r,
            [updated |-> Len(Referencing(d.entries))], <<"apply">>)

apply_gl_updates(d, g, r) ==
    IF d.docstatus # 1 THEN Throws(d, g, r)
    ELSE Outcome(FALSE, [d EXCEPT !.status = "GL Updated"],
                 ApplyRows(g, d.entries), r,
                 [updated |-> Len(Referencing(d.entries))], <<"apply">>)

RECURSIVE RestoreRows(_, _)
RestoreRows(g, rows) ==
    IF rows = <<>> THEN g
    ELSE RestoreRows(restore_gl_entry_originals(g, Head(rows)), Tail(rows))

\* rollback_gl_updates.  self.save() on a submitted document is an update
\* after submit: the framework does not run validate there.
rollback_gl_updates(d, g, r) ==
    LET rows == [i \in 1..Len(d.entries) |->
                    IF d.entries[i].reference_gl_entry = "" THEN d.entries[i]
                    ELSE [d.entries[i] EXCEPT
                            !.debit = flt(d.entries[i].original_debit),
                            !.credit = flt(d.entries[i].original_credit)]]
        d1 == update_totals([d EXCEPT !.entries = rows])
    IN  IF d.docstatus # 1 THEN Throws(d, g, r)
        ELSE Outcome(FALSE, [d1 EXCEPT !.status = "Rolled Back"],
                     RestoreRows(g, d.entries), r,
                     [restored |-> Len(Referencing(d.entries))], <<"rollback">>)

\* on_cancel that also restores the GL Entries from the snapshot
on_cancel_reverting(d, g) ==
    [doc |-> [d EXCEPT !.status = "Cancelled"], gl |-> RestoreRows(g, d.entries)]

on_cancel(d, g) == [doc |-> [d EXCEPT !.status = "Cancelled"], gl |-> g]

\* The differences validate_gl_state lists for one row (lines 273-282)
RowDiffs(gle, row) ==
    (IF RGt(RAbs(RSub(flt(gle.debit), flt(row.debit))), R(Tolerance))
        THEN {"debit"} ELSE {})
    \cup (IF RGt(RAbs(RSub(flt(gle.credit), flt(row.credit))), R(Tolerance))
        THEN {"credit"} ELSE {})
    \cup (IF gle.account # row.account THEN {"account"} ELSE {})
    \cup (IF gle.cost_center # row.cost_center THEN {"cost_center"} ELSE {})

Mismatches(d, g) ==
    SelectSeq(Referencing(d.entries),
              LAMBDA row: RowDiffs(g[row.reference_gl_entry], row) # {})

validate_gl_state(d, g, r) ==
    LET mismatches == Mismatches(d, g)
    IN  IF d.docstatus # 1 THEN Throws(d, g, r)
        ELSE IF mismatches # <<>>
        THEN Outcome(FALSE, d, g, r,
                     [ok |-> FALSE,
                      details |-> [i \in 1..Len(mismatches) |->
                                      mismatches[i].reference_gl_entry]],
                     <<"check_failed">>)
        ELSE Outcome(FALSE, d, g, r, [ok |-> TRUE], <<"check_passed">>)

StockVoucherTypes ==
    {"Purchase Receipt", "Stock Entry", "Purchase Invoice", "Sales Invoice"}

NewRiv(d) ==
    [company |-> d.company, voucher_type |-> d.voucher_type,
     voucher_no |-> d.voucher_no, docstatus |-> 1]

\* repost_valuation that creates the document without looking at docstatus
repost_valuation_unguarded(d, g, r, installed) ==
    IF HeaderMissing(d) THEN Throws(d, g, r)
    ELSE IF ~installed
    THEN Outcome(FALSE, d, g, r, [created |-> 0], <<"riv_missing">>)
    ELSE Outcome(FALSE, d, g, Append(r, NewRiv(d)),
                 [created |-> 1, repost_name |-> Len(r) + 1],
                 (IF d.voucher_type \notin StockVoucherTypes
                     THEN <<"riv_warning">> ELSE <<>>) \o <<"riv_created">>)

\* GLCorrection.repost_valuation; the new document is named by its number
repost_valuation(d, g, r, installed) ==
    IF d.docstatus # 1 THEN Throws(d, g, r)
    ELSE IF HeaderMissing(d) THEN Throws(d, g, r)
    ELSE IF ~installed
    THEN Outcome(FALSE, d, g, r, [created |-> 0], <<"riv_missing">>)
    ELSE Outcome(FALSE, d, g, Append(r, NewRiv(d)),
                 [created |-> 1, repost_name |-> Len(r) + 1],
                 (IF d.voucher_type \notin StockVoucherTypes
                     THEN <<"riv_warning">> ELSE <<>>) \o <<"riv_created">>)


\* ------------------------------------------------------------- actions

SvfIdle == svf = None /\ bin = None /\ pr = None /\ srs = <<>>

\* The stored values and the call record after a GL Correction handler
Stored(op, o) ==
    /\ doc' = o.doc
    /\ gl' = o.gl
    /\ rivs' = o.rivs
    /\ last' = Call(op, <<>>, o.threw, o.ret, o.comments)

Fetch ==
    LET o == fetch_gl_entries(doc, gl, rivs)
    IN  /\ Stored("fetch_gl_entries", o)
        /\ glAtFetch' = IF o.threw THEN glAtFetch ELSE gl
        /\ UNCHANGED <<rivInstalled, svfVars>>

Amounts == 0..MaxAmount

\* What a user can type into the rows of the child table before a Save:
\* new debit and credit values on every row, or a new account and cost center
\* on the first row.
RowEdits(entries) ==
    { [i \in 1..Len(entries) |->
          [entries[i] EXCEPT !.debit = R(a[i][1]), !.credit = R(a[i][2])]]
      : a \in [1..Len(entries) -> Amounts \X Amounts] }
    \cup
    { [entries EXCEPT ![i] = [@ EXCEPT !.account = acc, !.cost_center = cc]]
      : i \in 1..Len(entries) \cap {1},
        acc \in Accounts \cup {""},
        cc \in CostCenters \cup {""} }

\* Save of the edited draft: the framework runs validate and stores the
\* document if it passes
SaveOutcome(d, edited, g, r) ==
    LET v == validate(edited)
    IN  IF v.threw THEN Throws(d, g, r)
        ELSE Outcome(FALSE, v.doc, g, r, None, <<>>)

\* The form offers Save and Submit on a draft only, and Cancel on a submitted
\* document only.
SaveRows ==
    /\ doc.docstatus = 0
    /\ \E entries \in RowEdits(doc.entries) :
          Stored("save", SaveOutcome(doc, [doc EXCEPT !.entries = entries], gl, rivs))
    /\ UNCHANGED <<glAtFetch, rivInstalled, svfVars>>

Headers ==
    { <<"ACME", "Purchase Receipt", "PR-1">>,
      <<"ACME", "Journal Entry", "PR-1">>,
      <<"", "Purchase Receipt", "PR-1">>,
      <<"ACME", "", "PR-1">>,
      <<"ACME", "Purchase Receipt", "">> }

SaveHeader ==
    /\ doc.docstatus = 0
    /\ \E h \in Headers :
          Stored("save",
                 SaveOutcome(doc, [doc EXCEPT !.company = h[1],
                                              !.voucher_type = h[2],
                                              !.voucher_no = h[3]], gl, rivs))
    /\ UNCHANGED <<glAtFetch, rivInstalled, svfVars>>

\* Submit of a draft: validate, docstatus 0 -> 1, then on_submit
SubmitOutcome(d, g, r) ==
    LET v == validate(d)
        s == on_submit([v.doc EXCEPT !.docstatus = 1], g)
    IN  IF v.threw THEN Throws(d, g, r)
        ELSE Outcome(FALSE, s.doc, s.gl, r, None, <<>>)

Submit ==
    /\ doc.docstatus = 0
    /\ Stored("submit", SubmitOutcome(doc, gl, rivs))
    /\ UNCHANGED <<glAtFetch, rivInstalled, svfVars>>

\* Cancel of a submitted document: docstatus 1 -> 2, then on_cancel
CancelOutcome(d, g, r) ==
    LET c == on_cancel([d EXCEPT !.docstatus = 2], g)
    IN  Outcome(FALSE, c.doc, c.gl, r, None, <<>>)

Cancel ==
    /\ doc.docstatus = 1
    /\ Stored("cancel", CancelOutcome(doc, gl, rivs))
    /\ UNCHANGED <<glAtFetch, rivInstalled, svfVars>>

Apply ==
    /\ Stored("apply_gl_updates", apply_gl_updates(doc, gl, rivs))
    /\ UNCHANGED <<glAtFetch, rivInstalled, svfVars>>

ValidateGLState ==
    /\ Stored("validate_gl_state", validate_gl_state(doc, gl, rivs))
    /\ UNCHANGED <<glAtFetch, rivInstalled, svfVars>>

Rollback ==
    /\ Stored("rollback_gl_updates", rollback_gl_updates(doc, gl, rivs))
    /\ UNCHANGED <<glAtFetch, rivInstalled, svfVars>>

Repost ==
    /\ Len(rivs) < MaxRiv
    /\ Stored("repost_valuation", repost_valuation(doc, gl, rivs, rivInstalled))
    /\ UNCHANGED <<glAtFetch, rivInstalled, svfVars>>

\* ---- Spec: one GL Correction on voucher PR-1, its rows edited in draft

Init ==
    /\ gl \in InitialLedgers
    /\ glAtFetch = gl
    /\ doc = NewDoc("ACME", "Purchase Receipt", "PR-1")
    /\ rivs = <<>>
    /\ rivInstalled = TRUE
    /\ SvfIdle
    /\ last = NoCall

Next ==
    \/ Fetch
    \/ SaveRows
    \/ Submit
    \/ Cancel
    \/ Apply
    \/ ValidateGLState
    \/ Rollback
    \/ Repost

Spec == Init /\ [][Next]_vars

\* ---- SpecRepost: the header fields edited in draft, with and without the
\* ---- Repost Item Valuation DocType

InitRepost ==
    /\ gl \in InitialLedgers
    /\ glAtFetch = gl
    /\ \E h \in Headers : doc = NewDoc(h[1], h[2], h[3])
    /\ rivs = <<>>
    /\ rivInstalled \in BOOLEAN
    /\ SvfIdle
    /\ last = NoCall

NextRepost ==
    \/ Fetch
    \/ SaveHeader
    \/ Submit
    \/ Cancel
    \/ Apply
    \/ Rollback
    \/ Repost

SpecRepost == InitRepost /\ [][NextRepost]_vars

\* ---- SpecAmounts: update_gl_entry_amounts on one GL Entry

Vals == 0..MaxVal

InitAmounts ==
    /\ \E d \in Vals \X Vals \X Vals, c \in Vals \X Vals \X Vals :
          gl = [n \in {"GLE-1"} |-> GLEntry("Cash", "Main", d, c, 0)]
    /\ glAtFetch = gl
    /\ doc = NewDoc("ACME", "Purchase Receipt", "PR-1")
    /\ rivs = <<>>
    /\ rivInstalled = TRUE
    /\ SvfIdle
    /\ last = NoCall

\* One call per stored entry: the entry drawn by InitAmounts is the input.
UpdateAmounts ==
    \E new_debit \in Vals, new_credit \in Vals :
        /\ last = NoCall
        /\ gl' = update_gl_entry_amounts(gl, "GLE-1", R(new_debit), R(new_credit))
        /\ last' = Call("update_gl_entry_amounts", <<R(new_debit), R(new_credit)>>,
                        FALSE, None, <<>>)
        /\ UNCHANGED <<glAtFetch, doc, rivs, rivInstalled, svfVars>>

NextAmounts == UpdateAmounts

SpecAmounts == InitAmounts /\ [][NextAmounts]_vars


\* ------------------------------------------------- GL Correction: claims

ReferencedNames == { doc.entries[i].reference_gl_entry : i \in 1..Len(doc.entries) } \ {""}

Did(op) == last.op = op /\ ~last.threw

\* C1: after rollback_gl_updates on a submitted correction whose rows were
\* loaded by fetch_gl_entries, every GL Entry a row references has the account,
\* cost center and six amounts it had when fetch_gl_entries ran.
C1_RollbackRestoresFetched ==
    Did("rollback_gl_updates") =>
        \A n \in ReferencedNames : GLFields(gl[n]) = GLFields(glAtFetch[n])

\* C2: when apply_gl_updates has completed and no GL Entry has changed since
\* (the status is still "GL Updated"), validate_gl_state returns ok = True.
C2_ValidateOkAfterApply ==
    (Did("validate_gl_state") /\ doc.status = "GL Updated") => last.ret.ok

AllOrNone(a, b, c) ==
    \/ ~Truthy(a) /\ ~Truthy(b) /\ ~Truthy(c)
    \/ Truthy(a) /\ Truthy(b) /\ Truthy(c)

ConsistentSides(e) ==
    /\ AllOrNone(e.debit, e.debit_in_account_currency,
                 e.debit_in_transaction_currency)
    /\ AllOrNone(e.credit, e.credit_in_account_currency,
                 e.credit_in_transaction_currency)

\* C3: apply_gl_updates keeps the amount fields of a GL Entry consistent: an
\* entry whose three debit fields were all zero or all non-zero, and likewise
\* its three credit fields, is so again after the call.
C3_ApplyKeepsAmountsConsistent ==
    [][(last'.op = "apply_gl_updates" /\ ~last'.threw) =>
          \A n \in ReferencedNames :
              ConsistentSides(gl[n]) => ConsistentSides(gl'[n])]_vars

FrameOps ==
    {"save", "submit", "cancel", "fetch_gl_entries", "validate_gl_state",
     "repost_valuation"}

\* C4: validate (Save), Submit with on_submit, Cancel with on_cancel,
\* fetch_gl_entries, validate_gl_state and repost_valuation leave every GL Entry
\* as it was; on_submit only sets the status to "Applied" and on_cancel only
\* sets it to "Cancelled".
C4_OnlyApplyAndRollbackWriteGL ==
    [][/\ last'.op \in FrameOps => gl' = gl
       /\ (last'.op = "submit" /\ ~last'.threw) =>
              doc' = [doc EXCEPT !.docstatus = 1, !.status = "Applied"]
       /\ last'.op = "cancel" =>
              doc' = [doc EXCEPT !.docstatus = 2, !.status = "Cancelled"]]_vars

\* C4 witness: a correction cancelled after an apply, its GL Entries still changed
C4_Witness ==
    /\ Did("cancel")
    /\ doc.status = "Cancelled"
    /\ gl # glAtFetch

\* C5: on a draft or cancelled correction apply_gl_updates and
\* rollback_gl_updates throw and leave the GL Entries, the rows and the status
\* as they were; no step taken from a draft or cancelled correction changes a
\* GL Entry.
C5_OnlySubmittedWritesGL ==
    [][/\ doc.docstatus # 1 => gl' = gl
       /\ (last'.op \in {"apply_gl_updates", "rollback_gl_updates"}
            /\ doc.docstatus # 1) =>
              (last'.threw /\ gl' = gl /\ doc' = doc)]_vars

\* C5 witness: rollback refused on a correction cancelled after an apply
C5_Witness ==
    /\ last.op = "rollback_gl_updates"
    /\ last.threw
    /\ doc.docstatus = 2
    /\ gl # glAtFetch

Balanced(entries) ==
    LET diff == RSub(SumField(entries, "debit"), SumField(entries, "credit"))
    IN  /\ diff[1] * 1 <= Tolerance * diff[2]
        /\ -diff[1] * 1 <= Tolerance * diff[2]

C8_RepostValuation ==
    [][last'.op = "repost_valuation" =>
         /\ gl' = gl
         /\ doc' = doc
         /\ IF doc.docstatus # 1 \/ doc.company = "" \/ doc.voucher_type = ""
               \/ doc.voucher_no = ""
            THEN last'.threw /\ rivs' = rivs /\ last'.comments = <<>>
            ELSE /\ ~last'.threw
                 /\ IF ~rivInstalled
                    THEN /\ rivs' = rivs
                         /\ last'.ret.created = 0
                         /\ Len(last'.comments) = 1
                    ELSE /\ Len(rivs') = Len(rivs) + 1
                         /\ SubSeq(rivs', 1, Len(rivs)) = rivs
                         /\ rivs'[Len(rivs')] =
                              [company |-> doc.company,
                               voucher_type |-> doc.voucher_type,
                               voucher_no |-> doc.voucher_no,
                               docstatus |-> 1]
                         /\ last'.ret.created = 1
                         /\ last'.ret.repost_name = Len(rivs')
                         /\ last'.comments =
                              IF doc.voucher_type \in
                                   {"Purchase Receipt", "Stock Entry",
                                    "Purchase Invoice", "Sales Invoice"}
                              THEN <<"riv_created">>
                              ELSE <<"riv_warning", "riv_created">>]_vars

\* C8 witness: a document created for a Journal Entry, after the warning
C8_Witness ==
    /\ Did("repost_valuation")
    /\ last.ret.created = 1
    /\ last.comments = <<"riv_warning", "riv_created">>
    /\ Len(rivs) = 1
    /\ rivs[1].voucher_type = "Journal Entry"

DebitSide(e) ==
    <<e.debit, e.debit_in_account_currency, e.debit_in_transaction_currency>>

CreditSide(e) ==
    <<e.credit, e.credit_in_account_currency, e.credit_in_transaction_currency>>

\* C9: update_gl_entry_amounts on an entry with old debit D # 0 and new debit N
\* sets debit to N, debit_in_account_currency to A*N/D and
\* debit_in_transaction_currency to T*N/D; likewise for the credit side; and
\* what it writes on one side does not depend on the other side.
C9_ProportionalRescaling ==
    [][last'.op = "update_gl_entry_amounts" =>
         LET e == gl["GLE-1"]
             f == gl'["GLE-1"]
             N == last'.args[1]
             M == last'.args[2]
         IN  /\ Truthy(e.debit) =>
                  /\ f.debit = N
                  /\ RMul(f.debit_in_account_currency, e.debit)
                       = RMul(e.debit_in_account_currency, N)
                  /\ RMul(f.debit_in_transaction_currency, e.debit)
                       = RMul(e.debit_in_transaction_currency, N)
             /\ Truthy(e.credit) =>
                  /\ f.credit = M
                  /\ RMul(f.credit_in_account_currency, e.credit)
                       = RMul(e.credit_in_account_currency, M)
                  /\ RMul(f.credit_in_transaction_currency, e.credit)
                       = RMul(e.credit_in_transaction_currency, M)
             /\ \A x \in Vals :
                  LET other == [gl EXCEPT !["GLE-1"] =
                                  [e EXCEPT !.credit = R(x),
                                            !.credit_in_account_currency = R(x)]]
                  IN  DebitSide(update_gl_entry_amounts(other, "GLE-1", N, R(x))["GLE-1"])
                        = DebitSide(f)
             /\ \A x \in Vals :
                  LET other == [gl EXCEPT !["GLE-1"] =
                                  [e EXCEPT !.debit = R(x),
                                            !.debit_in_account_currency = R(x)]]
                  IN  CreditSide(update_gl_entry_amounts(other, "GLE-1", R(x), M)["GLE-1"])
                        = CreditSide(f)]_vars

\* C9 witness: a debit of 2 rescaled to 1 leaves half the old amount in
\* account currency
C9_Witness ==
    /\ last.op = "update_gl_entry_amounts"
    /\ last.args[1] = R(1)
    /\ gl["GLE-1"].debit = R(1)
    /\ gl["GLE-1"].debit_in_account_currency[2] = 2
    /\ Truthy(gl["GLE-1"].credit_in_account_currency)


\* ------------------------------------------------- Stock Valuation Fix

NewFix ==
    [docstatus |-> 0, status |-> "Draft",
     company |-> "ACME", item_code |-> "ITEM-A", warehouse |-> "W1",
     qty_on_hand |-> None, current_valuation_rate |-> None,
     target_valuation_rate |-> None,
     current_total_value |-> None, target_total_value |-> None,
     difference_value |-> None,
     source_voucher_type |-> "", source_voucher_no |-> "",
     source_row_name |-> "", source_current_rate |-> None,
     revaluation_document |-> ""]

\* update_totals with the difference taken the wrong way round
svf_update_totals_swapped(f) ==
    LET qty == flt(f.qty_on_hand)
        cur_rate == flt(f.current_valuation_rate)
        tgt_rate == flt(f.target_valuation_rate)
        current == IF Truthy(qty) /\ Truthy(cur_rate) THEN RMul(qty, cur_rate) ELSE Zero
    IN  IF Truthy(qty) /\ Truthy(tgt_rate)
        THEN [f EXCEPT !.current_total_value = current,
                       !.target_total_value = RMul(qty, tgt_rate),
                       !.difference_value = RSub(current, RMul(qty, tgt_rate))]
        ELSE [f EXCEPT !.current_total_value = current,
                       !.target_total_value = Zero,
                       !.difference_value = Zero]

\* StockValuationFix.update_totals
svf_update_totals(f) ==
    LET qty == flt(f.qty_on_hand)
        cur_rate == flt(f.current_valuation_rate)
        tgt_rate == flt(f.target_valuation_rate)
        current == IF Truthy(qty) /\ Truthy(cur_rate) THEN RMul(qty, cur_rate) ELSE Zero
    IN  IF Truthy(qty) /\ Truthy(tgt_rate)
        THEN [f EXCEPT !.current_total_value = current,
                       !.target_total_value = RMul(qty, tgt_rate),
                       !.difference_value = RSub(RMul(qty, tgt_rate), current)]
        ELSE [f EXCEPT !.current_total_value = current,
                       !.target_total_value = Zero,
                       !.difference_value = Zero]

\* StockValuationFix.validate
svf_validate(f) == svf_update_totals(f)

SvfOutcome(threw, f, p, s, ret, comments) ==
    [threw |-> threw, svf |-> f, pr |-> p, srs |-> s,
     ret |-> ret, comments |-> comments]

SvfThrows(f, p, s) == SvfOutcome(TRUE, f, p, s, None, <<>>)

\* Submit of a draft: validate, docstatus 0 -> 1, then on_submit
svf_submit(f, p, s) ==
    LET v == [svf_validate(f) EXCEPT !.docstatus = 1]
    IN  IF ~Truthy(v.qty_on_hand) THEN SvfThrows(f, p, s)
        ELSE IF ~Truthy(v.target_valuation_rate) THEN SvfThrows(f, p, s)
        ELSE SvfOutcome(FALSE,
                        IF v.status = "" \/ v.status = "Draft"
                        THEN [v EXCEPT !.status = "Previewed"] ELSE v,
                        p, s, None, <<>>)

\* fetch_current_state; self.save() runs validate on a draft
fetch_current_state(f, b, p, s) ==
    LET bin_doc == b[f.item_code]
        f1 == IF bin_doc = None
              THEN [f EXCEPT !.qty_on_hand = Zero, !.current_valuation_rate = Zero]
              ELSE [f EXCEPT !.qty_on_hand = flt(bin_doc.actual_qty),
                             !.current_valuation_rate = flt(bin_doc.valuation_rate)]
        f2 == [svf_update_totals(f1) EXCEPT !.status = "Valuation Fetched"]
        f3 == IF f.docstatus = 0 THEN svf_validate(f2) ELSE f2
    IN  IF f.company = "" \/ f.item_code = "" \/ f.warehouse = ""
        THEN SvfThrows(f, p, s)
        ELSE SvfOutcome(FALSE, f3, p, s,
                        [qty_on_hand |-> f3.qty_on_hand,
                         current_valuation_rate |-> f3.current_valuation_rate,
                         current_total_value |-> f3.current_total_value],
                        <<>>)

preview_adjustment(f, p, s) ==
    LET f1 == [svf_update_totals(f) EXCEPT !.status = "Previewed"]
        f2 == IF f.docstatus = 0 THEN svf_validate(f1) ELSE f1
    IN  IF ~Truthy(f.target_valuation_rate) THEN SvfThrows(f, p, s)
        ELSE IF ~Truthy(f.qty_on_hand) THEN SvfThrows(f, p, s)
        ELSE SvfOutcome(FALSE, f2, p, s,
                        [target_valuation_rate |-> f2.target_valuation_rate,
                         target_total_value |-> f2.target_total_value,
                         difference_value |-> f2.difference_value],
                        <<>>)

\* frappe.get_doc("Item", item_code): has_serial_no or has_batch_no
ItemIsTracked(item_code) == item_code = "ITEM-C"

\* create_revaluation_entry; the Stock Reconciliation is named by its number
create_revaluation_entry(f, p, s) ==
    LET f1 == svf_update_totals(f)
        sr == [company |-> f.company, docstatus |-> 1,
               items |-> <<[item_code |-> f.item_code, warehouse |-> f.warehouse,
                            qty |-> f.qty_on_hand,
                            valuation_rate |-> f.target_valuation_rate]>>]
    IN  IF f.docstatus # 1 THEN SvfThrows(f, p, s)
        ELSE IF f.revaluation_document # "" THEN SvfThrows(f, p, s)
        ELSE IF ~Truthy(f.qty_on_hand) THEN SvfThrows(f, p, s)
        ELSE IF ~Truthy(f.target_valuation_rate) THEN SvfThrows(f, p, s)
        ELSE IF RGt(R(Tolerance), RAbs(flt(f1.difference_value)))
        THEN SvfThrows(f, p, s)
        ELSE IF ItemIsTracked(f.item_code)
        THEN SvfOutcome(FALSE, f, p, s,
                        [needs_manual |-> 1, qty |-> f.qty_on_hand,
                         valuation_rate |-> f.target_valuation_rate],
                        <<>>)
        ELSE SvfOutcome(FALSE,
                        [f1 EXCEPT !.revaluation_document = "SR-1",
                                   !.status = "Revaluation Created"],
                        p, Append(s, sr),
                        [revaluation_document |-> "SR-1", needs_manual |-> 0],
                        <<"sr_created">>)

\* ---- update_source_entry

\* The position of the first row named source_row_name, or 0 (lines 283-286)
RECURSIVE FirstNamed(_, _, _)
FirstNamed(items, name, i) ==
    IF i > Len(items) THEN 0
    ELSE IF items[i].name = name THEN i
    ELSE FirstNamed(items, name, i + 1)

\* rows_to_update with the warehouse test left out
RowsToUpdate_any_warehouse(f, items) ==
    IF f.source_row_name # ""
    THEN (IF FirstNamed(items, f.source_row_name, 1) = 0 THEN {}
          ELSE {FirstNamed(items, f.source_row_name, 1)})
    ELSE { i \in 1..Len(items) : items[i].item_code = f.item_code }

\* rows_to_update (lines 280-298), as the positions of the rows in pr.items
RowsToUpdate(f, items) ==
    IF f.source_row_name # ""
    THEN (IF FirstNamed(items, f.source_row_name, 1) = 0 THEN {}
          ELSE {FirstNamed(items, f.source_row_name, 1)})
    ELSE { i \in 1..Len(items) :
             /\ items[i].item_code = f.item_code
             /\ (items[i].warehouse = "" \/ items[i].warehouse = f.warehouse) }

\* 0.0000001 in units of 0.0001 (line 318)
RateEpsilon == <<1, 1000>>

\* One pass of the loop of lines 312-345 on a row
UpdatedRow(row, new_rate, conversion_rate) ==
    LET old_rate == flt(row.rate)
        qty == flt(row.qty)
        amount == RMul(qty, new_rate)
        base_rate == RMul(new_rate, conversion_rate)
        base_amount == RMul(amount, conversion_rate)
    IN  IF RGt(RateEpsilon, RAbs(RSub(old_rate, new_rate))) THEN row
        ELSE [row EXCEPT !.rate = new_rate, !.valuation_rate = new_rate,
                         !.amount = amount,
                         !.base_rate = base_rate, !.base_amount = base_amount,
                         !.net_rate = new_rate, !.net_amount = amount,
                         !.base_net_rate = base_rate,
                         !.base_net_amount = base_amount]

\* update_source_entry.  frappe.get_doc throws for a voucher that does not
\* exist; pr.calculate_taxes_and_totals() is the host application's and is
\* taken to leave the item rows as the loop wrote them.
update_source_entry(f, p, s) ==
    LET new_rate == flt(f.target_valuation_rate)
        conversion_rate == flt(IF Truthy(p.conversion_rate)
                               THEN p.conversion_rate ELSE R(1))
        rows_to_update == RowsToUpdate(f, p.items)
        items == [i \in 1..Len(p.items) |->
                    IF i \in rows_to_update
                    THEN UpdatedRow(p.items[i], new_rate, conversion_rate)
                    ELSE p.items[i]]
        updated_rows == { i \in rows_to_update : items[i] # p.items[i] }
        first == CHOOSE i \in rows_to_update : \A j \in rows_to_update : i <= j
    IN  IF f.docstatus # 1 THEN SvfThrows(f, p, s)
        ELSE IF ~Truthy(f.target_valuation_rate) THEN SvfThrows(f, p, s)
        ELSE IF f.source_voucher_type = "" \/ f.source_voucher_no = ""
        THEN SvfThrows(f, p, s)
        ELSE IF f.source_voucher_type # "Purchase Receipt" THEN SvfThrows(f, p, s)
        ELSE IF f.source_voucher_no # p.name THEN SvfThrows(f, p, s)
        ELSE IF rows_to_update = {} THEN SvfThrows(f, p, s)
        ELSE IF updated_rows = {}
        THEN SvfOutcome(FALSE, f, p, s, [updated |-> 0, new_rate |-> new_rate], <<>>)
        ELSE SvfOutcome(FALSE,
                        [f EXCEPT !.source_current_rate = flt(p.items[first].rate)],
                        [p EXCEPT !.items = items], s,
                        [updated |-> Cardinality(updated_rows),
                         rows |-> { items[i].name : i \in updated_rows },
                         new_rate |-> new_rate],
                        <<"pr_rows_updated", "fix_rows_updated">>)


\* ---- SpecSVF: one Stock Valuation Fix, the Bin table and Purchase Receipt PR-1

GlIdle ==
    /\ gl = None /\ glAtFetch = None /\ doc = None
    /\ rivs = <<>> /\ rivInstalled = TRUE

PRItem(name, item_code, warehouse, qty, rate, conversion_rate) ==
    LET c == IF Truthy(conversion_rate) THEN conversion_rate ELSE R(1)
    IN  [name |-> name, item_code |-> item_code, warehouse |-> warehouse,
         qty |-> R(qty), rate |-> R(rate), valuation_rate |-> R(rate),
         amount |-> R(qty * rate),
         base_rate |-> RMul(R(rate), c), base_amount |-> RMul(R(qty * rate), c),
         net_rate |-> R(rate), net_amount |-> R(qty * rate),
         base_net_rate |-> RMul(R(rate), c),
         base_net_amount |-> RMul(R(qty * rate), c)]

Rates == 0..MaxRate
Qtys == 0..MaxQty

InitSVF ==
    /\ GlIdle
    /\ svf = NewFix
    /\ \E b \in {None} \cup [actual_qty : {R(q) : q \in Qtys},
                             valuation_rate : {R(r) : r \in Rates}] :
          bin = [i \in {"ITEM-A", "ITEM-C"} |->
                    IF i = "ITEM-A" THEN b
                    ELSE [actual_qty |-> R(1), valuation_rate |-> R(1)]]
    /\ \E r1 \in Rates \ {0} :
          pr = [name |-> "PR-1", conversion_rate |-> R(2),
                items |-> << PRItem("R1", "ITEM-A", "W1", 2, r1, R(2)),
                             PRItem("R2", "ITEM-A", "", 1, 1, R(2)),
                             PRItem("R3", "ITEM-A", "W2", 1, 1, R(2)),
                             PRItem("R4", "ITEM-B", "W1", 1, 1, R(2)) >>]
    /\ srs = <<>>
    /\ last = NoCall

SvfStored(op, o) ==
    /\ svf' = o.svf
    /\ pr' = o.pr
    /\ srs' = o.srs
    /\ last' = Call(op, <<>>, o.threw, o.ret, o.comments)
    /\ UNCHANGED <<bin, glVars>>

\* What a user can type into the form before a Save: a target rate, the source
\* voucher and row, or another item
FixEdits(f) ==
    { [f EXCEPT !.target_valuation_rate = R(t)] : t \in Rates }
    \cup
    { [f EXCEPT !.source_voucher_type = src[1], !.source_voucher_no = src[2],
                !.source_row_name = src[3]]
      : src \in { <<"", "", "">>,
                  <<"Purchase Receipt", "", "">>,
                  <<"Stock Entry", "PR-1", "">>,
                  <<"Purchase Receipt", "PR-1", "">>,
                  <<"Purchase Receipt", "PR-1", "R3">>,
                  <<"Purchase Receipt", "PR-1", "R9">> } }
    \cup
    { [f EXCEPT !.item_code = i] : i \in {"ITEM-A", "ITEM-C"} }

\* Save of the edited draft: the framework runs validate and stores the document
SvfSave ==
    /\ svf.docstatus = 0
    /\ \E edited \in FixEdits(svf) :
          SvfStored("validate",
                    SvfOutcome(FALSE, svf_validate(edited), pr, srs, None, <<>>))

SvfSubmit ==
    /\ svf.docstatus = 0
    /\ SvfStored("submit", svf_submit(svf, pr, srs))

SvfFetch == SvfStored("fetch_current_state", fetch_current_state(svf, bin, pr, srs))

SvfPreview == SvfStored("preview_adjustment", preview_adjustment(svf, pr, srs))

SvfCreateRevaluation ==
    SvfStored("create_revaluation_entry", create_revaluation_entry(svf, pr, srs))

SvfUpdateSource == SvfStored("update_source_entry", update_source_entry(svf, pr, srs))

NextSVF ==
    \/ SvfSave
    \/ SvfSubmit
    \/ SvfFetch
    \/ SvfPreview
    \/ SvfCreateRevaluation
    \/ SvfUpdateSource

SpecSVF == InitSVF /\ [][NextSVF]_vars


\* ------------------------------------------- Stock Valuation Fix: claims

\* C7: update_source_entry changes only the selected Purchase Receipt Item
\* rows: the row named source_row_name when that is set, otherwise the rows of
\* the fix's item whose warehouse is empty or the fix's warehouse.  It throws,
\* changing nothing, when no row is selected or the source voucher type is not
\* Purchase Receipt; when it returns, every selected row carries the target
\* rate and the amount for that rate.
C7_UpdatesOnlySelectedRows ==
    [][last'.op = "update_source_entry" =>
         LET items == pr.items
             new_rate == svf.target_valuation_rate
             selected ==
                IF svf.source_row_name # ""
                THEN { i \in 1..Len(items) : items[i].name = svf.source_row_name }
                ELSE { i \in 1..Len(items) :
                         /\ items[i].item_code = svf.item_code
                         /\ items[i].warehouse \in {"", svf.warehouse} }
         IN  /\ Len(pr'.items) = Len(items)
             /\ \A i \in (1..Len(items)) \ selected : pr'.items[i] = items[i]
             /\ last'.threw => (pr' = pr /\ svf' = svf)
             /\ selected = {} => last'.threw
             /\ svf.source_voucher_type # "Purchase Receipt" => last'.threw
             /\ ~last'.threw =>
                  \A i \in selected :
                     /\ pr'.items[i].rate = new_rate
                     /\ pr'.items[i].amount = RMul(items[i].qty, new_rate)
                     /\ pr'.items[i].name = items[i].name
                     /\ pr'.items[i].item_code = items[i].item_code
                     /\ pr'.items[i].warehouse = items[i].warehouse
                     /\ pr'.items[i].qty = items[i].qty]_vars

\* C7 witness: with no source row name, the two rows of the item in the fix's
\* warehouse or in none were updated and the row in another warehouse was not
C7_Witness ==
    /\ Did("update_source_entry")
    /\ svf.source_row_name = ""
    /\ last.ret.updated = 2
    /\ pr.items[1].rate = svf.target_valuation_rate
    /\ pr.items[2].rate = svf.target_valuation_rate
    /\ pr.items[3].rate # svf.target_valuation_rate

UpdateTotalsOps ==
    {"validate", "submit", "fetch_current_state", "preview_adjustment",
     "create_revaluation_entry"}

\* C10: after update_totals, for every qty_on_hand, current_valuation_rate and
\* target_valuation_rate, current_total_value = qty * current rate,
\* target_total_value = qty * target rate and
\* difference_value = target_total_value - current_total_value.
C10_TotalsAreProducts ==
    (last.op \in UpdateTotalsOps /\ ~last.threw) =>
        LET qty == flt(svf.qty_on_hand)
        IN  /\ svf.current_total_value = RMul(qty, flt(svf.current_valuation_rate))
            /\ svf.target_total_value = RMul(qty, flt(svf.target_valuation_rate))
            /\ svf.difference_value =
                  RSub(svf.target_total_value, svf.current_total_value)

\* C10 as amended: the two totals are the products; difference_value is
\* target_total_value - current_total_value when qty_on_hand and
\* target_valuation_rate are both non-zero, and 0 otherwise.
C10_TotalsWhenDataPresent ==
    (last.op \in UpdateTotalsOps /\ ~last.threw) =>
        LET qty == flt(svf.qty_on_hand)
            tgt_rate == flt(svf.target_valuation_rate)
        IN  /\ svf.current_total_value = RMul(qty, flt(svf.current_valuation_rate))
            /\ svf.target_total_value = RMul(qty, tgt_rate)
            /\ svf.difference_value =
                  IF qty # Zero /\ tgt_rate # Zero
                  THEN RSub(svf.target_total_value, svf.current_total_value)
                  ELSE Zero

\* C10 witness: a preview whose target value is below the current value
C10_Witness ==
    /\ Did("preview_adjustment")
    /\ svf.difference_value[1] < 0
    /\ Truthy(svf.current_total_value)
    /\ Truthy(svf.target_total_value)

====
